---------------------------- MODULE Spec2Model ----------------------------
(***************************************************************************)
(* Model of the PDF merge / split tool (src/app.py): the range parsers     *)
(* parse_page_ranges and parse_split_ranges, and the three button handlers *)
(* of main(): merge, split by page ranges and split by size budget.        *)
(*                                                                         *)
(* A Python str is a sequence of characters; a character is a one-letter   *)
(* TLA+ string, except "TAB" (U+0009) and "SUP2" (U+00B2, superscript two, *)
(* a character for which str.isdigit() is True and int() raises).          *)
(***************************************************************************)
EXTENDS Integers, Sequences, FiniteSets, TLC

(***************************************************************************)
(* Bounds of the model.                                                    *)
(***************************************************************************)
MaxLen == 3
MaxPages == 5
MaxFiles == 2

(***************************************************************************)
(* Characters.                                                             *)
(***************************************************************************)
Alphabet == {"0", "1", "2", ",", "-", " ", "TAB", "a", "l", "A", "SUP2"}

\* The characters of well-formed range expressions, used for longer inputs.
CoreAlphabet == {"0", "1", "2", ",", "-"}

\* str.strip() with no argument removes leading and trailing whitespace.
Whitespace == {" ", "TAB"}

\* Characters for which str.isdigit() is True.
DigitChars == {"0", "1", "2", "3", "4", "5", "6", "7", "8", "9", "SUP2"}

\* Characters int() accepts as decimal digits, with their values.
DecimalValue(c) ==
    CASE c = "0" -> 0 [] c = "1" -> 1 [] c = "2" -> 2 [] c = "3" -> 3
      [] c = "4" -> 4 [] c = "5" -> 5 [] c = "6" -> 6 [] c = "7" -> 7
      [] c = "8" -> 8 [] c = "9" -> 9 [] OTHER -> -1

\* str.lower() on one character.
LowerChar(c) == CASE c = "A" -> "a" [] c = "L" -> "l" [] OTHER -> c

(***************************************************************************)
(* The str methods the parsers use.                                        *)
(***************************************************************************)
lower(s) == [i \in 1..Len(s) |-> LowerChar(s[i])]

RECURSIVE lstrip(_)
lstrip(s) == IF s # <<>> /\ Head(s) \in Whitespace THEN lstrip(Tail(s)) ELSE s

RECURSIVE rstrip(_)
rstrip(s) ==
    IF s # <<>> /\ s[Len(s)] \in Whitespace
    THEN rstrip(SubSeq(s, 1, Len(s) - 1))
    ELSE s

strip(s) == rstrip(lstrip(s))

\* s.replace(" ", ""): only U+0020 is removed.
replace_space(s) == SelectSeq(s, LAMBDA c : c # " ")

\* s.split(sep) for a one-character separator: Len >= 1, empty parts kept.
RECURSIVE split(_, _)
split(s, sep) ==
    IF \A i \in 1..Len(s) : s[i] # sep
    THEN <<s>>
    ELSE LET k == CHOOSE i \in 1..Len(s) :
                      s[i] = sep /\ \A j \in 1..(i - 1) : s[j] # sep
         IN  <<SubSeq(s, 1, k - 1)>> \o split(SubSeq(s, k + 1, Len(s)), sep)

\* sep in s
contains(s, c) == \E i \in 1..Len(s) : s[i] = c

isdigit(s) == s # <<>> /\ \A i \in 1..Len(s) : s[i] \in DigitChars

\* int(s) raises ValueError unless every character is a decimal digit.
int_raises(s) == s = <<>> \/ \E i \in 1..Len(s) : DecimalValue(s[i]) < 0

RECURSIVE int(_)
int(s) == IF s = <<>> THEN 0
          ELSE 10 * int(SubSeq(s, 1, Len(s) - 1)) + DecimalValue(s[Len(s)])

max(a, b) == IF a >= b THEN a ELSE b
min(a, b) == IF a <= b THEN a ELSE b

\* range(a, b) as a set and as a list.
range_set(a, b) == {i \in a..(b - 1) : TRUE}
range_list(a, b) == [i \in 1..max(0, b - a) |-> a + i - 1]

\* sorted(list(S)) for a set of integers.
RECURSIVE sorted(_)
sorted(S) ==
    IF S = {} THEN <<>>
    ELSE LET m == CHOOSE x \in S : \A y \in S : x <= y
         IN  <<m>> \o sorted(S \ {m})

(***************************************************************************)
(* Results of a call: a value, or an exception that left the function.     *)
(***************************************************************************)
Return(v) == [raised |-> FALSE, val |-> v]
Raise(e) == [raised |-> TRUE, val |-> e]

(***************************************************************************)
(* parse_page_ranges (src/app.py 19-40).                                   *)
(***************************************************************************)
\* One pass of the loop body, lines 29-39: the pages the part adds.
page_part_raises(part) ==
    /\ part # <<>>
    /\ IF contains(part, "-")
       THEN LET parts == split(part, "-")
            IN  /\ Len(parts) = 2 /\ isdigit(parts[1]) /\ isdigit(parts[2])
                /\ (int_raises(parts[1]) \/ int_raises(parts[2]))
       ELSE isdigit(part) /\ int_raises(part)

\* page_part_pages without the clamp of line 34.
page_part_pages_unclamped(part, max_pages) ==
    IF part = <<>> THEN {}
    ELSE IF contains(part, "-")
    THEN LET parts == split(part, "-")
         IN  IF Len(parts) = 2 /\ isdigit(parts[1]) /\ isdigit(parts[2])
             THEN range_set(max(1, int(parts[1])) - 1, int(parts[2]))
             ELSE {}
    ELSE IF isdigit(part)
    THEN LET p == int(part)
         IN  IF 1 <= p /\ p <= max_pages THEN {p - 1} ELSE {}
    ELSE {}

page_part_pages(part, max_pages) ==
    IF part = <<>> THEN {}
    ELSE IF contains(part, "-")
    THEN LET parts == split(part, "-")
         IN  IF Len(parts) = 2 /\ isdigit(parts[1]) /\ isdigit(parts[2])
             THEN LET start == max(1, int(parts[1]))
                      end == min(max_pages, int(parts[2]))
                  IN  range_set(start - 1, end)
             ELSE {}
    ELSE IF isdigit(part)
    THEN LET p == int(part)
         IN  IF 1 <= p /\ p <= max_pages THEN {p - 1} ELSE {}
    ELSE {}

parse_page_ranges(range_str, max_pages) ==
    IF range_str = <<>> \/ strip(range_str) = <<>>
         \/ lower(strip(range_str)) = <<"a", "l", "l">>
    THEN Return(range_list(0, max_pages))
    ELSE LET tokens == split(replace_space(range_str), ",")
         IN  IF \E i \in 1..Len(tokens) : page_part_raises(tokens[i])
             THEN Raise("ValueError")
             ELSE Return(sorted(UNION {page_part_pages(tokens[i], max_pages) :
                                          i \in 1..Len(tokens)}))

(***************************************************************************)
(* parse_split_ranges (src/app.py 42-64).                                  *)
(***************************************************************************)
\* One pass of the loop body, lines 48-60: the list `pages` of the part.
split_part_pages(part, max_pages) ==
    IF part = <<>> THEN <<>>
    ELSE IF contains(part, "-")
    THEN LET parts == split(part, "-")
         IN  IF Len(parts) = 2 /\ isdigit(parts[1]) /\ isdigit(parts[2])
             THEN LET start == max(1, int(parts[1]))
                      end == min(max_pages, int(parts[2]))
                  IN  IF start <= end THEN range_list(start - 1, end) ELSE <<>>
             ELSE <<>>
    ELSE IF isdigit(part)
    THEN LET p == int(part)
         IN  IF 1 <= p /\ p <= max_pages THEN <<p - 1>> ELSE <<>>
    ELSE <<>>

RECURSIVE split_groups(_, _)
split_groups(tokens, max_pages) ==
    IF tokens = <<>> THEN <<>>
    ELSE LET pages == split_part_pages(Head(tokens), max_pages)
             rest == split_groups(Tail(tokens), max_pages)
         IN  IF pages # <<>> THEN <<pages>> \o rest ELSE rest

parse_split_ranges(range_str, max_pages) ==
    LET tokens == split(replace_space(range_str), ",")
    IN  IF \E i \in 1..Len(tokens) : page_part_raises(tokens[i])
        THEN Raise("ValueError")
        ELSE Return(split_groups(tokens, max_pages))

(***************************************************************************)
(* Python float arithmetic (src/app.py 173, 241-251).  A float is an IEEE  *)
(* 754 binary64 number; the sizes and budgets here are non-negative and    *)
(* far from overflow and underflow, so a float is 0 or m * 2^e with        *)
(* 2^52 <= m < 2^53, and every operation rounds its exact result to the    *)
(* nearest such number, ties to even.  Significands do not fit TLC's       *)
(* integers: a natural number is a little-endian sequence of limbs in      *)
(* base 2^15 without leading zero limbs.                                   *)
(***************************************************************************)
MantBits == 53
Base == 2^15

RECURSIVE BigFromInt(_)
BigFromInt(n) == IF n = 0 THEN <<>> ELSE <<n % Base>> \o BigFromInt(n \div Base)

RECURSIVE BigToInt(_)
BigToInt(x) == IF x = <<>> THEN 0 ELSE Head(x) + Base * BigToInt(Tail(x))

RECURSIVE BigTrim(_)
BigTrim(x) ==
    IF x # <<>> /\ x[Len(x)] = 0 THEN BigTrim(SubSeq(x, 1, Len(x) - 1)) ELSE x

LimbOrZero(x) == IF x = <<>> THEN 0 ELSE Head(x)
RestOrEmpty(x) == IF x = <<>> THEN <<>> ELSE Tail(x)

RECURSIVE BigAddC(_, _, _)
BigAddC(x, y, c) ==
    IF x = <<>> /\ y = <<>>
    THEN IF c = 0 THEN <<>> ELSE <<c>>
    ELSE LET t == LimbOrZero(x) + LimbOrZero(y) + c
         IN  <<t % Base>> \o BigAddC(RestOrEmpty(x), RestOrEmpty(y), t \div Base)

BigAdd(x, y) == BigAddC(x, y, 0)

\* x - y - b for x >= y + b, limb by limb with a borrow.
RECURSIVE BigSubB(_, _, _)
BigSubB(x, y, b) ==
    IF x = <<>> THEN <<>>
    ELSE LET t == Head(x) - LimbOrZero(y) - b
         IN  <<t % Base>> \o BigSubB(Tail(x), RestOrEmpty(y), IF t < 0 THEN 1 ELSE 0)

BigSub(x, y) == BigTrim(BigSubB(x, y, 0))

BigLess(x, y) ==
    IF Len(x) # Len(y) THEN Len(x) < Len(y)
    ELSE \E i \in 1..Len(x) :
            /\ x[i] < y[i]
            /\ \A j \in (i + 1)..Len(x) : x[j] = y[j]

BigOdd(x) == x # <<>> /\ x[1] % 2 = 1

BigDouble(x) == BigAdd(x, x)

BigHalf(x) ==
    BigTrim([i \in 1..Len(x) |->
                (x[i] \div 2)
                + (IF i < Len(x) THEN (x[i + 1] % 2) * (Base \div 2) ELSE 0)])

RECURSIVE BigMulLimb(_, _, _)
BigMulLimb(x, d, c) ==
    IF x = <<>> THEN BigFromInt(c)
    ELSE LET t == Head(x) * d + c
         IN  <<t % Base>> \o BigMulLimb(Tail(x), d, t \div Base)

\* x * d for one limb d
BigScale(x, d) == BigTrim(BigMulLimb(x, d, 0))

RECURSIVE BigMul(_, _)
BigMul(x, y) ==
    IF x = <<>> \/ y = <<>> THEN <<>>
    ELSE BigTrim(BigAdd(BigScale(x, Head(y)), <<0>> \o BigMul(x, Tail(y))))

\* x * 2^k: whole limbs, then the rest of the shift inside the limbs.
ShiftLeft(x, k) ==
    IF x = <<>> THEN <<>>
    ELSE [i \in 1..(k \div 15) |-> 0] \o BigScale(x, 2^(k % 15))

\* x \div 2^k
ShiftRight(x, k) ==
    IF k \div 15 >= Len(x) THEN <<>>
    ELSE LET y == SubSeq(x, (k \div 15) + 1, Len(x))
             p == 2^(k % 15)
         IN  BigTrim([i \in 1..Len(y) |->
                        (y[i] \div p)
                        + (IF i < Len(y) THEN (y[i + 1] % p) * (Base \div p)
                                         ELSE 0)])

RECURSIVE LimbBits(_)
LimbBits(d) == IF d = 0 THEN 0 ELSE 1 + LimbBits(d \div 2)

BitLen(x) == IF x = <<>> THEN 0 ELSE 15 * (Len(x) - 1) + LimbBits(x[Len(x)])

FZero == [m |-> <<>>, e |-> 0]

\* The float nearest to (N + f) * 2^e, 0 <= f < 1, f # 0 iff sticky; ties to
\* even.
RoundBig(N, e, sticky) ==
    LET L == BitLen(N)
    IN  IF L = 0 THEN FZero
        ELSE IF L <= MantBits
        THEN [m |-> ShiftLeft(N, MantBits - L), e |-> e - (MantBits - L)]
        ELSE LET s == L - MantBits
                 kept == ShiftRight(N, s)
                 dropped == BigSub(N, ShiftLeft(kept, s))
                 half == ShiftLeft(<<1>>, s - 1)
                 up == \/ BigLess(half, dropped)
                       \/ dropped = half /\ (sticky \/ BigOdd(kept))
                 m1 == IF up THEN BigAdd(kept, <<1>>) ELSE kept
             IN  IF BitLen(m1) > MantBits
                 THEN [m |-> BigHalf(m1), e |-> e + s + 1]
                 ELSE [m |-> m1, e |-> e + s]

\* float(n) for an int n >= 0
FromInt(n) == RoundBig(BigFromInt(n), 0, FALSE)

LimbAt(x, i) == IF i <= Len(x) THEN x[i] ELSE 0

\* One step of long division in base 2^15: the limb q = N \div D for
\* N < D * 2^15, where the top limb of D is at least 2^14.  The quotient of
\* the two top limbs of N by the top limb of D is q, q + 1 or q + 2.
QuotientLimb(N, D) ==
    LET n == Len(D)
        qhat == min(Base - 1,
                    (LimbAt(N, n + 1) * Base + LimbAt(N, n)) \div D[n])
    IN  CHOOSE q \in {c \in {qhat - 2, qhat - 1, qhat} : c >= 0} :
            /\ ~BigLess(N, BigScale(D, q))
            /\ BigLess(N, BigAdd(BigScale(D, q), D))

\* k more limbs of the quotient of R by D, R < D: <<quotient, remainder>>,
\* the quotient little-endian after the limbs Q found so far.
RECURSIVE DivLoop(_, _, _, _)
DivLoop(R, D, Q, k) ==
    IF k = 0 THEN <<BigTrim(Q), R>>
    ELSE LET N == IF R = <<>> THEN <<>> ELSE <<0>> \o R
             q == QuotientLimb(N, D)
         IN  DivLoop(BigSub(N, BigScale(D, q)), D, <<q>> \o Q, k - 1)

\* x / y for floats, y # 0: the quotient of the significands to 60 more bits
\* and whether anything remains, rounded.
FDiv(x, y) ==
    IF x.m = <<>> THEN FZero
    ELSE LET sh == 15 * Len(y.m) - BitLen(y.m)
             D == ShiftLeft(y.m, sh)
             N0 == ShiftLeft(x.m, sh)
             first == ~BigLess(N0, D)
             R0 == IF first THEN BigSub(N0, D) ELSE N0
             qr == DivLoop(R0, D, IF first THEN <<1>> ELSE <<0>>, 4)
         IN  RoundBig(qr[1], x.e - y.e - 60, qr[2] # <<>>)

\* x * y for floats
FMul(x, y) == RoundBig(BigMul(x.m, y.m), x.e + y.e, FALSE)

\* x < y for floats >= 0
FLess(x, y) ==
    IF y.m = <<>> THEN FALSE
    ELSE IF x.m = <<>> THEN TRUE
    ELSE x.e < y.e \/ (x.e = y.e /\ BigLess(x.m, y.m))

\* math.floor(x) and math.ceil(x) for a float x >= 0, as an int
floor(x) ==
    IF x.e >= 0 THEN BigToInt(ShiftLeft(x.m, x.e))
    ELSE BigToInt(ShiftRight(x.m, -x.e))

ceil(x) ==
    IF x.e >= 0 \/ ShiftLeft(ShiftRight(x.m, -x.e), -x.e) = x.m
    THEN floor(x)
    ELSE floor(x) + 1

(***************************************************************************)
(* State.  One run of the Streamlit script handles at most one button; the *)
(* variables hold the widgets' values and what the last run left on the    *)
(* page.                                                                   *)
(***************************************************************************)
VARIABLES
    range_str,       \* the text of a range input (range_str / split_input)
    max_pages,       \* len(reader.pages) of the document it refers to
    called,          \* the parser applied to range_str, "none" if none was
    ret,             \* what that call returned or raised
    uploaded_files,  \* merge mode: the uploaded files with their page inputs
    clicked,         \* the button the last run handled, "none" before any
    ui,              \* the st.warning / st.error / st.success boxes of the run
    download,        \* the st.download_button of the run, NoDownload if none
    work,            \* what the run created: writers, archives, pages added
    file_size,       \* split mode: uploaded_file.size, in bytes
    target_mb,       \* split mode: the value of the size number_input
    sim              \* split mode: the simulation of lines 241-258

vars == <<range_str, max_pages, called, ret, uploaded_files, clicked, ui,
          download, work, file_size, target_mb, sim>>

\* The number of writer.add_page calls for a list of page lists.
RECURSIVE SumLen(_)
SumLen(groups) ==
    IF groups = <<>> THEN 0 ELSE Len(Head(groups)) + SumLen(Tail(groups))

NoDownload == [file_name |-> "", data |-> <<>>]
NoWork == [writers |-> 0, archives |-> 0, pages |-> 0]
NoSim == [raised |-> FALSE, avg_mb_per_page |-> FZero, pages_per_file |-> 0,
          num_files |-> 0, estimate |-> FZero]

Strings(chars, n) == UNION {[1..k -> chars] : k \in 0..n}

RangeExprs == Strings(Alphabet, MaxLen) \cup Strings(CoreAlphabet, MaxLen + 2)

\* The parts of the state a specification does not use.
NoSession ==
    /\ clicked = "none"
    /\ ui = {}
    /\ download = NoDownload
    /\ work = NoWork

NoSizeTab ==
    /\ file_size = 0
    /\ target_mb = FZero
    /\ sim = NoSim

(***************************************************************************)
(* The parsers applied to every bounded input.                             *)
(***************************************************************************)
InitParse ==
    /\ range_str \in RangeExprs
    /\ max_pages \in 0..MaxPages
    /\ called = "none"
    /\ ret = Return(<<>>)
    /\ uploaded_files = <<>>
    /\ NoSession
    /\ NoSizeTab

CallParsePageRanges ==
    /\ called' = "parse_page_ranges"
    /\ ret' = parse_page_ranges(range_str, max_pages)
    /\ UNCHANGED <<range_str, max_pages, uploaded_files, clicked, ui,
                   download, work, file_size, target_mb, sim>>

CallParseSplitRanges ==
    /\ called' = "parse_split_ranges"
    /\ ret' = parse_split_ranges(range_str, max_pages)
    /\ UNCHANGED <<range_str, max_pages, uploaded_files, clicked, ui,
                   download, work, file_size, target_mb, sim>>

NextParse == CallParsePageRanges \/ CallParseSplitRanges

SpecParse == InitParse /\ [][NextParse]_vars

(***************************************************************************)
(* Merge mode (src/app.py 83-153).                                         *)
(***************************************************************************)
\* Range texts typed next to an uploaded file.
MergeInputs ==
    { <<>>,
      <<"a", "l", "l">>,
      <<"1">>,
      <<"2", "-", "3">>,
      <<"3", ",", "1">>,
      <<"1", ",", "1", ",", "2", "-", "3">>,
      <<"9">>,
      <<"SUP2">> }

\* An uploaded file: pypdf reads it or not; an unreadable one gets no input.
UploadedFile ==
    {[readable |-> TRUE, num_pages |-> n, pages_input |-> t] :
        n \in 0..MaxPages, t \in MergeInputs}
    \cup {[readable |-> FALSE, num_pages |-> 0, pages_input |-> <<>>]}

\* Lines 98-125: one entry per file pypdf could read, in upload order.
\* `file` is the index of the file among the uploaded ones.
RECURSIVE file_page_settings_from(_, _)
file_page_settings_from(files, i) ==
    IF i > Len(files) THEN <<>>
    ELSE IF files[i].readable
    THEN <<[file |-> i, pages_input |-> files[i].pages_input,
            max_pages |-> files[i].num_pages]>>
         \o file_page_settings_from(files, i + 1)
    ELSE file_page_settings_from(files, i + 1)

file_page_settings(files) == file_page_settings_from(files, 1)

\* Lines 133-138: the pages merger.add_page receives, each <<file, page>>.
\* The loop ends at the first file whose range text makes the parser raise.
RECURSIVE merger_pages(_)
merger_pages(settings) ==
    IF settings = <<>> THEN <<>>
    ELSE LET s == Head(settings)
             r == parse_page_ranges(s.pages_input, s.max_pages)
             target_pages == r.val
         IN  IF r.raised THEN <<>>
             ELSE [k \in 1..Len(target_pages) |-> <<s.file, target_pages[k]>>]
                  \o merger_pages(Tail(settings))

merge_raises(settings) ==
    \E k \in 1..Len(settings) :
        parse_page_ranges(settings[k].pages_input, settings[k].max_pages).raised

\* The st.error boxes of lines 106-108, shown on every run.
unreadable_errors(files) ==
    IF \E i \in 1..Len(files) : ~files[i].readable
    THEN {"error_unreadable"} ELSE {}

InitMerge ==
    /\ uploaded_files \in UNION {[1..k -> UploadedFile] : k \in 1..MaxFiles}
    /\ range_str = <<>>
    /\ max_pages = 0
    /\ called = "none"
    /\ ret = Return(<<>>)
    /\ clicked = "none"
    /\ ui = unreadable_errors(uploaded_files)
    /\ download = NoDownload
    /\ work = NoWork
    /\ NoSizeTab

\* Lines 129-153: the run that handles the merge button.
ClickMerge ==
    LET settings == file_page_settings(uploaded_files)
    IN  /\ clicked' = "merge"
        /\ IF merge_raises(settings)
           THEN /\ ui' = unreadable_errors(uploaded_files) \cup {"error"}
                /\ download' = NoDownload
                /\ work' = [writers |-> 1, archives |-> 0,
                            pages |-> Len(merger_pages(settings))]
           ELSE /\ ui' = unreadable_errors(uploaded_files) \cup {"success"}
                /\ download' = [file_name |-> "merged_document.pdf",
                                data |-> merger_pages(settings)]
                /\ work' = [writers |-> 1, archives |-> 0,
                            pages |-> Len(merger_pages(settings))]
        /\ UNCHANGED <<range_str, max_pages, called, ret, uploaded_files,
                       file_size, target_mb, sim>>

NextMerge == ClickMerge

SpecMerge == InitMerge /\ [][NextMerge]_vars

(***************************************************************************)
(* Split mode, tab (b): split by size budget (src/app.py 230-289).  Every  *)
(* run of the script in split mode computes the simulation of lines        *)
(* 241-258; the run that handles the button then assembles the archive.    *)
(***************************************************************************)
\* Line 173.
file_size_mb(size) == FDiv(FromInt(size), FromInt(1024 * 1024))

\* Line 241.
avg_mb_per_page(size_mb, pages) ==
    IF pages > 0 THEN FDiv(size_mb, FromInt(pages)) ELSE FZero

\* over_target with >= for >.
over_target_or_equal(avg, target) == ~FLess(avg, target)

\* Line 243: whether the warning of line 244 is shown.
over_target(avg, target) == FLess(target, avg)

\* pages_per_file with math.ceil for math.floor.
pages_per_file_ceil(avg, target, pages) ==
    IF over_target(avg, target) THEN 1
    ELSE IF FLess(FZero, avg) THEN max(1, ceil(FDiv(target, avg)))
    ELSE pages

\* Lines 243-249.
pages_per_file(avg, target, pages) ==
    IF over_target(avg, target) THEN 1
    ELSE IF FLess(FZero, avg) THEN max(1, floor(FDiv(target, avg)))
    ELSE pages

\* Line 251: max_pages / pages_per_file raises ZeroDivisionError.
num_files_raises(pages, per_file) == per_file = 0

\* num_files with integer division for math.ceil.
num_files_truncated(pages, per_file) == pages \div per_file

\* Line 251.
num_files(pages, per_file) == ceil(FDiv(FromInt(pages), FromInt(per_file)))

\* Lines 241-258 for one run of the script.
simulate(size, pages, target) ==
    LET avg == avg_mb_per_page(file_size_mb(size), pages)
        per_file == pages_per_file(avg, target, pages)
    IN  IF num_files_raises(pages, per_file)
        THEN [raised |-> TRUE, avg_mb_per_page |-> avg,
              pages_per_file |-> per_file, num_files |-> 0, estimate |-> FZero]
        ELSE [raised |-> FALSE, avg_mb_per_page |-> avg,
              pages_per_file |-> per_file,
              num_files |-> num_files(pages, per_file),
              estimate |-> FMul(avg, FromInt(per_file))]

\* The boxes lines 241-258 leave on the page; an exception that no handler
\* catches ends the run and is shown by Streamlit.
sim_boxes(r, target) ==
    (IF over_target(r.avg_mb_per_page, target) THEN {"warning_over_target"} ELSE {})
    \cup (IF r.raised THEN {"exception"} ELSE {"info_simulation"})

\* Lines 266-278: one archive member per i in range(num_files), named
\* {base_name}_size_part{i+1}.
size_zip(n, per_file, pages) ==
    [k \in 1..n |->
        [name |-> <<"base_name", "_size_part", k>>,
         pages |-> range_list((k - 1) * per_file, min(k * per_file, pages))]]

\* Sizes of uploaded files pypdf can read, in bytes.
FileSizes == {262144, 1048576, 2097152, 5242880, 20971520}

\* Values typed into the number_input, in hundredths of a megabyte.
TargetInputs == {0, 10, 50, 200, 340}

\* The float the number_input holds for the text c / 100.
number_input_value(c) == FDiv(FromInt(c), FromInt(100))

\* Line 235: min_value = 0.1.
number_input_accepts(c) == ~FLess(number_input_value(c), number_input_value(10))

\* The first run after the upload: the number_input holds value = 2.0.
InitSizeSplit ==
    /\ file_size \in FileSizes
    /\ max_pages \in 0..MaxPages
    /\ target_mb = number_input_value(200)
    /\ sim = simulate(file_size, max_pages, target_mb)
    /\ ui = sim_boxes(sim, target_mb)
    /\ range_str = <<>>
    /\ called = "none"
    /\ ret = Return(<<>>)
    /\ uploaded_files = <<>>
    /\ clicked = "none"
    /\ download = NoDownload
    /\ work = NoWork

\* The user changes the size budget: the script runs again.
ChangeTarget ==
    \E c \in TargetInputs :
        /\ number_input_accepts(c)
        /\ target_mb' = number_input_value(c)
        /\ sim' = simulate(file_size, max_pages, target_mb')
        /\ ui' = sim_boxes(sim', target_mb')
        /\ clicked' = "none"
        /\ download' = NoDownload
        /\ work' = NoWork
        /\ UNCHANGED <<range_str, max_pages, called, ret, uploaded_files,
                       file_size>>

\* Lines 261-289: the run that handles the size-split button.  The button is
\* on the page only if the run before reached line 261.
ClickSizeSplit ==
    /\ ~sim.raised
    /\ clicked' = "size_split"
    /\ sim' = simulate(file_size, max_pages, target_mb)
    /\ ui' = sim_boxes(sim', target_mb) \cup {"success"}
    /\ download' = [file_name |-> "split_by_size.zip",
                    data |-> size_zip(sim'.num_files, sim'.pages_per_file,
                                      max_pages)]
    /\ work' = [writers |-> sim'.num_files, archives |-> 1,
                pages |-> SumLen([k \in 1..Len(download'.data) |->
                                     download'.data[k].pages])]
    /\ UNCHANGED <<range_str, max_pages, called, ret, uploaded_files,
                   file_size, target_mb>>

NextSizeSplit == ChangeTarget \/ ClickSizeSplit

SpecSizeSplit == InitSizeSplit /\ [][NextSizeSplit]_vars

(***************************************************************************)
(* Split mode, tab (a): split by page ranges (src/app.py 184-227).  The    *)
(* run that handles the button goes on to tab (b) and computes the         *)
(* simulation of lines 241-258 as every run in split mode does.            *)
(***************************************************************************)
\* Lines 205-214: one archive member per group, named {base_name}_part{idx+1}.
range_zip(groups) ==
    [idx \in 1..Len(groups) |->
        [name |-> <<"base_name", "_part", idx>>, pages |-> groups[idx]]]

\* The first run after the upload of a file of 1 MB, the text typed.
InitRangeSplit ==
    /\ file_size = 1048576
    /\ max_pages \in 0..MaxPages
    /\ target_mb = number_input_value(200)
    /\ sim = simulate(file_size, max_pages, target_mb)
    /\ ui = sim_boxes(sim, target_mb)
    /\ range_str \in RangeExprs
    /\ called = "none"
    /\ ret = Return(<<>>)
    /\ uploaded_files = <<>>
    /\ clicked = "none"
    /\ download = NoDownload
    /\ work = NoWork

\* range_split_outcome without the test of line 199.
range_split_outcome_unchecked(r) ==
    IF r.raised
    THEN [ui |-> {"error"}, download |-> NoDownload, work |-> NoWork]
    ELSE [ui |-> {"success"},
          download |-> [file_name |-> "split_pages.zip",
                        data |-> range_zip(r.val)],
          work |-> [writers |-> Len(r.val), archives |-> 1,
                    pages |-> SumLen(r.val)]]

\* Lines 199-223: what the run does with the parser's result.
range_split_outcome(r) ==
    IF r.raised
    THEN [ui |-> {"error"}, download |-> NoDownload, work |-> NoWork]
    ELSE IF r.val = <<>>
    THEN [ui |-> {"warning_no_valid_range"}, download |-> NoDownload,
          work |-> NoWork]
    ELSE [ui |-> {"success"},
          download |-> [file_name |-> "split_pages.zip",
                        data |-> range_zip(r.val)],
          work |-> [writers |-> Len(r.val), archives |-> 1,
                    pages |-> SumLen(r.val)]]

\* Lines 194-227: the run that handles the range-split button.  The widget
\* values are those of the run before, so lines 241-258 compute the same
\* simulation and leave the same boxes again.
ClickRangeSplit ==
    /\ clicked' = "range_split"
    /\ IF strip(range_str) # <<>>
       THEN LET r == parse_split_ranges(range_str, max_pages)
                o == range_split_outcome(r)
            IN  /\ called' = "parse_split_ranges"
                /\ ret' = r
                /\ ui' = o.ui \cup sim_boxes(sim, target_mb)
                /\ download' = o.download
                /\ work' = o.work
       ELSE /\ called' = "none"
            /\ ret' = Return(<<>>)
            /\ ui' = {"warning_enter_range"} \cup sim_boxes(sim, target_mb)
            /\ download' = NoDownload
            /\ work' = NoWork
    /\ UNCHANGED <<range_str, max_pages, uploaded_files, file_size, target_mb,
                   sim>>

NextRangeSplit == ClickRangeSplit

SpecRangeSplit == InitRangeSplit /\ [][NextRangeSplit]_vars

(***************************************************************************)
(* The range grammar as the design document states it, for comparison      *)
(* with the parsers.                                                       *)
(***************************************************************************)
\* The expression with all whitespace stripped.
RefStripAll(s) == SelectSeq(s, LAMBDA c : c \notin Whitespace)

\* A token that is a decimal number.
RefIsInteger(tok) ==
    tok # <<>> /\ \A i \in 1..Len(tok) : DecimalValue(tok[i]) >= 0

\* What one token contributes: p-1 for a page p in range, the clamped range
\* for a-b, nothing for any other shape.
RefTokenPages(tok, pageCount) ==
    IF RefIsInteger(tok)
    THEN IF 1 <= int(tok) /\ int(tok) <= pageCount THEN {int(tok) - 1} ELSE {}
    ELSE LET ab == split(tok, "-")
         IN  IF Len(ab) = 2 /\ RefIsInteger(ab[1]) /\ RefIsInteger(ab[2])
             THEN {i \in 0..(pageCount - 1) :
                      /\ max(1, int(ab[1])) - 1 <= i
                      /\ i <= min(pageCount, int(ab[2])) - 1}
             ELSE {}

RefParse(rangeExpr, pageCount) ==
    IF RefStripAll(rangeExpr) = <<>>
         \/ lower(strip(rangeExpr)) = <<"a", "l", "l">>
    THEN [i \in 1..pageCount |-> i - 1]
    ELSE LET tokens == split(RefStripAll(rangeExpr), ",")
         IN  sorted(UNION {RefTokenPages(tokens[i], pageCount) :
                              i \in 1..Len(tokens)})

\* The non-empty per-token contributions, in token order.
RECURSIVE RefGroups(_, _)
RefGroups(tokens, pageCount) ==
    IF tokens = <<>> THEN <<>>
    ELSE LET g == sorted(RefTokenPages(Head(tokens), pageCount))
         IN  (IF g # <<>> THEN <<g>> ELSE <<>>)
             \o RefGroups(Tail(tokens), pageCount)

(***************************************************************************)
(* Properties of the parsers, checked under SpecParse.                     *)
(***************************************************************************)
\* C1: for every range expression and every pageCount >= 1,
\* parse_page_ranges returns the reference result: all pages for an empty,
\* whitespace-only or "all" expression; otherwise the union of the tokens'
\* contributions after stripping all whitespace and splitting on ','.
C1_ParseEqualsReference ==
    (called = "parse_page_ranges" /\ max_pages >= 1)
        => ret = Return(RefParse(range_str, max_pages))

\* C2: the sequence parse_page_ranges returns is strictly ascending, has no
\* duplicates, and every element lies in [0, pageCount), for every range
\* expression and every pageCount >= 0.
C2_ResultAscendingInRange ==
    (called = "parse_page_ranges" /\ ~ret.raised)
        => \A i \in 1..Len(ret.val) :
              /\ 0 <= ret.val[i] /\ ret.val[i] < max_pages
              /\ \A j \in 1..Len(ret.val) : i < j => ret.val[i] < ret.val[j]

\* C2 witness: "2,1,1" names a page twice and out of order; the call
\* returned [0, 1].
C2_Witness ==
    /\ called = "parse_page_ranges"
    /\ range_str = <<"2", ",", "1", ",", "1">>
    /\ max_pages = 2
    /\ ret = Return(<<0, 1>>)

\* C3: parse_page_ranges and parse_split_ranges never raise an exception,
\* whatever the range text.
C3_ParsersNeverRaise ==
    called \in {"parse_page_ranges", "parse_split_ranges"} => ~ret.raised

\* C4: parse_split_ranges tokenizes like parse_page_ranges and returns, in
\* token order, exactly one group for each token whose contribution is
\* non-empty and none for any other token, the groups kept apart.
C4_OneGroupPerToken ==
    called = "parse_split_ranges"
        => ret = Return(RefGroups(split(replace_space(range_str), ","),
                                  max_pages))

(***************************************************************************)
(* Properties of the merge handler, checked under SpecMerge.               *)
(***************************************************************************)
\* The pages of source i: its parsed page-index set in ascending order.
RefSourcePages(files, i) ==
    LET r == parse_page_ranges(files[i].pages_input, files[i].num_pages)
    IN  IF files[i].readable /\ ~r.raised
        THEN [k \in 1..Len(r.val) |-> <<i, r.val[k]>>]
        ELSE <<>>

RECURSIVE RefMerge(_, _)
RefMerge(files, i) ==
    IF i > Len(files) THEN <<>>
    ELSE RefSourcePages(files, i) \o RefMerge(files, i + 1)

\* C9: for every sequence of readable sources with their range
\* expressions, merge completes with one output document whose pages are
\* the concatenation, in input order, of each source's parsed pages in
\* ascending order; an empty selection adds nothing and is no error.
C9_MergeConcatenates ==
    clicked = "merge"
        => /\ "success" \in ui
           /\ download.file_name = "merged_document.pdf"
           /\ download.data = RefMerge(uploaded_files, 1)

(***************************************************************************)
(* Properties of the range-split handler, checked under SpecRangeSplit.    *)
(***************************************************************************)
\* C5: whenever parse_split_ranges yields zero groups, the run shows the
\* "no valid range" warning and assembles nothing: no page is extracted, no
\* writer or archive is created, no download is offered; an archive that is
\* delivered holds at least one artifact and each holds at least one page.
C5_NoGroupsNoAssembly ==
    clicked = "range_split"
        => /\ (called = "parse_split_ranges" /\ ~ret.raised /\ ret.val = <<>>)
                => /\ "warning_no_valid_range" \in ui
                   /\ "success" \notin ui
                   /\ download = NoDownload
                   /\ work = NoWork
           /\ download # NoDownload
                => /\ Len(download.data) >= 1
                   /\ \A k \in 1..Len(download.data) :
                         Len(download.data[k].pages) >= 1

\* C5 witness: "11" names no page of a 5-page document; the run warned.
C5_Witness ==
    /\ clicked = "range_split"
    /\ range_str = <<"1", "1">>
    /\ max_pages = 5
    /\ ret = Return(<<>>)
    /\ "warning_no_valid_range" \in ui
    /\ download = NoDownload

(***************************************************************************)
(* Properties of the size-split tab, checked under SpecSizeSplit.          *)
(***************************************************************************)
\* C6: an invalid size budget (target <= 0, or a document of zero pages) is
\* rejected before planning: the run ends in a reported rejection, not in a
\* division by zero or another uncaught failure.
C6_InvalidBudgetRejected ==
    max_pages = 0 => ~sim.raised /\ "exception" \notin ui

\* The plan's inputs in bytes, as the design document states them.
RefTotalSize == FromInt(file_size)
RefTarget == FMul(target_mb, FromInt(1024 * 1024))
RefAvg == FDiv(RefTotalSize, FromInt(max_pages))

\* C7: for pageCount >= 1 and avg = totalSize / pageCount: if avg > target
\* then pagesPerOutput = 1 and the advisory is shown; else if avg > 0 then
\* pagesPerOutput = max(1, floor(target / avg)) with no advisory; else
\* pagesPerOutput = pageCount; outputCount = ceil(pageCount /
\* pagesPerOutput), and both are at least 1.
C7_PlanFollowsPolicy ==
    max_pages >= 1
        => /\ ~sim.raised
           /\ IF FLess(RefTarget, RefAvg)
              THEN /\ sim.pages_per_file = 1
                   /\ "warning_over_target" \in ui
              ELSE /\ "warning_over_target" \notin ui
                   /\ IF FLess(FZero, RefAvg)
                      THEN sim.pages_per_file
                              = max(1, floor(FDiv(RefTarget, RefAvg)))
                      ELSE sim.pages_per_file = max_pages
           /\ sim.pages_per_file >= 1
           /\ sim.num_files >= 1
           /\ (sim.num_files - 1) * sim.pages_per_file < max_pages
           /\ max_pages <= sim.num_files * sim.pages_per_file

\* C7 witness: 5 pages of 1 MB each, the budget changed to 3.4 MB: 3 pages
\* per output, 2 outputs, no advisory.
C7_Witness ==
    /\ file_size = 5242880
    /\ max_pages = 5
    /\ target_mb = number_input_value(340)
    /\ sim.pages_per_file = 3
    /\ sim.num_files = 2
    /\ "warning_over_target" \notin ui

\* C8: size-split emits exactly outputCount artifacts; artifact i is named
\* {baseName}_size_part{i} and holds the pages (i-1)*pagesPerOutput ..
\* min(i*pagesPerOutput, pageCount)-1 in ascending order: none is empty,
\* all but the last hold pagesPerOutput pages, and together, in order, they
\* are 0..pageCount-1 with each page once.
C8_SizeSplitPartitions ==
    (clicked = "size_split" /\ max_pages >= 1)
        => LET zip == download.data
               starts == [k \in 1..Len(zip) |-> (k - 1) * sim.pages_per_file]
           IN  /\ Len(zip) = sim.num_files
               /\ Len(zip) >= 1
               /\ \A k \in 1..Len(zip) :
                     /\ zip[k].name = <<"base_name", "_size_part", k>>
                     /\ Len(zip[k].pages) >= 1
                     /\ k < Len(zip) => Len(zip[k].pages) = sim.pages_per_file
                     /\ \A j \in 1..Len(zip[k].pages) :
                           zip[k].pages[j] = starts[k] + j - 1
               /\ starts[Len(zip)] + Len(zip[Len(zip)].pages) = max_pages

\* C8 witness: 5 pages at 2 per output: three artifacts, the last with one
\* page.
C8_Witness ==
    /\ clicked = "size_split"
    /\ max_pages = 5
    /\ sim.pages_per_file = 2
    /\ Len(download.data) = 3
    /\ download.data[3].pages = <<4>>

\* C10: the estimated size of one output, avg * pagesPerOutput, is at most
\* target whenever avg <= target; it exceeds target only when avg > target,
\* the case in which the advisory is shown.
C10_EstimateWithinTarget ==
    (max_pages >= 1 /\ ~sim.raised)
        => /\ ~FLess(target_mb, sim.avg_mb_per_page)
                => ~FLess(target_mb, sim.estimate)
           /\ FLess(target_mb, sim.estimate)
                => /\ FLess(target_mb, sim.avg_mb_per_page)
                   /\ "warning_over_target" \in ui

\* The next float above x > 0.
NextUp(x) == RoundBig(BigAdd(x.m, <<1>>), x.e, FALSE)

\* C10, amended: whenever avg <= target the estimate is at most the next
\* float above target (it exceeds target by no more than one rounding
\* step); the advisory is shown exactly when avg > target.
C10_EstimateWithinRounding ==
    (max_pages >= 1 /\ ~sim.raised)
        => /\ ~FLess(target_mb, sim.avg_mb_per_page)
                => ~FLess(NextUp(target_mb), sim.estimate)
           /\ "warning_over_target" \in ui
                <=> FLess(target_mb, sim.avg_mb_per_page)

\* C10 witness: 5 pages in 1 MB under a budget of 3.4 MB: avg is below the
\* budget, 17 pages per output, and the estimate is the float above 3.4.
C10_Witness ==
    /\ file_size = 1048576
    /\ max_pages = 5
    /\ sim.pages_per_file = 17
    /\ FLess(sim.avg_mb_per_page, target_mb)
    /\ sim.estimate = NextUp(target_mb)

=============================================================================
